---- MODULE Spec2Model ----
(***************************************************************************)
(* Session resolution of src/src/utils/sessionStore.ts: the DynamoDB table *)
(* of session records, and getOrCreateSmsWhatsAppSession and               *)
(* getOrCreateEmailSession as sequences of store operations (one step per  *)
(* awaited GetCommand / UpdateCommand / PutCommand).                       *)
(*                                                                         *)
(* Strings are sequences of one-character strings, so that normalisation   *)
(* and id formatting are computed character by character as the code does. *)
(***************************************************************************)
EXTENDS Integers, Sequences, FiniteSets, TLC

VARIABLES
    table,      \* the DynamoDB table: a set of items, primary key threadKey
    inv,        \* inv[p]: the invocation running in Lambda instance p (before:
                \* history, the record under its key when it was called)
    clock,      \* what Date.now() returns
    calls,      \* invocations started so far
    uuids,      \* uuidv4() values drawn so far
    issued      \* history: <<sessionKey, sessionId>> of every record put, in order

vars == <<table, inv, clock, calls, uuids, issued>>

(***************************** bounds **************************************)
\* resolutions per behaviour: one instance and SMS/WhatsApp only (Spec and
\* SpecLegacy), one instance and every channel (SpecAll), overlapping instances
\* (SpecConc), one instance and emails only (SpecMail),
\* one instance and the renderings of one phone number (SpecRenderings),
\* one instance and the inputs of the phone normalization (SpecNormalize),
\* the time-windowed generators (SpecWindow), overlapping instances on a key
\* that has a record (SpecRace), the handlers that relay a message (SpecRelay)
MaxCalls == 3

MaxAllCalls == 2

MaxConcCalls == 2

MaxMailCalls == 2

MaxRenderingCalls == 3

MaxNormalizeCalls == 2

MaxWindowCalls == 3

MaxRaceCalls == 3

MaxRelayCalls == 2

MaxThreadCalls == 2

Procs == {1, 2}

(************************* program constants *******************************)
SESSION_GAP_SMS_WA == 86400000

SESSION_GAP_MAIL == 604800000

(***************************** strings *************************************)
\* An optional argument that was not passed (undefined).
Absent == <<"undefined", "undefined">>

UpperChars == <<"A", "B", "C", "D", "E", "F", "G", "H", "I", "J", "K", "L", "M",
                "N", "O", "P", "Q", "R", "S", "T", "U", "V", "W", "X", "Y", "Z">>

LowerChars == <<"a", "b", "c", "d", "e", "f", "g", "h", "i", "j", "k", "l", "m",
                "n", "o", "p", "q", "r", "s", "t", "u", "v", "w", "x", "y", "z">>

DigitChars == <<"0", "1", "2", "3", "4", "5", "6", "7", "8", "9">>

LowerChar(c) ==
    IF \E i \in 1..26 : UpperChars[i] = c
    THEN LowerChars[CHOOSE i \in 1..26 : UpperChars[i] = c]
    ELSE c

\* String.prototype.toLowerCase
toLowerCase(s) == [i \in 1..Len(s) |-> LowerChar(s[i])]

\* the regular expression class \s
IsSpace(c) == c \in {" ", "\t", "\n", "\r"}

RECURSIVE trimStart(_)
trimStart(s) ==
    IF s # <<>> /\ IsSpace(Head(s)) THEN trimStart(Tail(s)) ELSE s

RECURSIVE trimEnd(_)
trimEnd(s) ==
    IF s # <<>> /\ IsSpace(s[Len(s)]) THEN trimEnd(SubSeq(s, 1, Len(s) - 1)) ELSE s

\* String.prototype.trim
trim(s) == trimEnd(trimStart(s))

\* String.prototype.includes
includes(s, sub) ==
    \E i \in 1..(Len(s) - Len(sub) + 1) : SubSeq(s, i, i + Len(sub) - 1) = sub

\* s begins with prefix, letter case ignored (a /^prefix/i test)
StartsWithIgnoreCase(s, prefix) ==
    /\ Len(s) >= Len(prefix)
    /\ toLowerCase(SubSeq(s, 1, Len(prefix))) = prefix

\* Number -> decimal digits, as a template literal formats a non-negative integer
RECURSIVE NumberToString(_)
NumberToString(n) ==
    IF n < 10 THEN <<DigitChars[n + 1]>>
    ELSE NumberToString(n \div 10) \o <<DigitChars[(n % 10) + 1]>>

(**************************** input sets ***********************************)
\* "+1 2", "WhatsApp:+12", "", " " and an absent argument
RawPhones ==
    { <<"+", "1", " ", "2">>,
      <<"W", "h", "a", "t", "s", "A", "p", "p", ":", "+", "1", "2">>,
      <<>>,
      <<" ">>,
      Absent }

\* "hi", " New Session" and an absent argument
MessageTexts ==
    { <<"h", "i">>,
      <<" ", "N", "e", "w", " ", "S", "e", "s", "s", "i", "o", "n">>,
      Absent }

Channels == {"sms", "whatsapp"}

\* the inputs of overlapping resolutions: "+1 2"; 5 minutes, the gap + 1 ms
ConcPhones == { <<"+", "1", " ", "2">> }

ConcDeltas == {300000, SESSION_GAP_SMS_WA + 1}

\* ... of resolutions that race after a record exists: the gap + 1 ms
RaceDeltas == {SESSION_GAP_SMS_WA + 1}

\* time between two reads of Date.now(): 5 minutes, the gap, the gap + 1 ms
Deltas == {300000, SESSION_GAP_SMS_WA, SESSION_GAP_SMS_WA + 1}

\* renderings of one number: "+1 (234) 567-8900", "WhatsApp:+12345678900" and
\* "12345678900"
PhoneRenderings ==
    { <<"+", "1", " ", "(", "2", "3", "4", ")", " ", "5", "6", "7", "-",
        "8", "9", "0", "0">>,
      <<"W", "h", "a", "t", "s", "A", "p", "p", ":", "+", "1", "2", "3",
        "4", "5", "6", "7", "8", "9", "0", "0">>,
      <<"1", "2", "3", "4", "5", "6", "7", "8", "9", "0", "0">> }

\* time between two messages of that number: none, 5 minutes, 25 hours less 5
\* minutes (so that messages arrive at t = 0, t = 5 min and t = 25 h)
RenderingDeltas == {0, 300000, 89700000}

\* strings normalizePhoneNumber is applied to: "", "+1 (2)-3 ", "Ab-C",
\* "WhatsApp:+12" and, with the prefix twice, "whatsapp:WhatsApp:+12"
NormalizeInputs ==
    { <<>>,
      <<"+", "1", " ", "(", "2", ")", "-", "3", " ">>,
      <<"A", "b", "-", "C">>,
      <<"W", "h", "a", "t", "s", "A", "p", "p", ":", "+", "1", "2">>,
      <<"w", "h", "a", "t", "s", "a", "p", "p", ":", "W", "h", "a", "t",
        "s", "A", "p", "p", ":", "+", "1", "2">> }

(************************** the DynamoDB table *****************************)
NoItem == [absent |-> TRUE]

\* GetCommand: getResult.Item, or nothing
GetItem(t, key) ==
    IF \E it \in t : it.threadKey = key
    THEN CHOOSE it \in t : it.threadKey = key
    ELSE NoItem

\* PutItem that adds the item and keeps the one it should replace
PutItemKeepingOld(t, item) ==
    t \cup {item}

\* PutCommand: full upsert, the item replaces the one of the same primary key
PutItem(t, item) ==
    {it \in t : it.threadKey # item.threadKey} \cup {item}

\* UpdateItem that writes an item of the key and the one attribute only
UpdateItemReplacing(t, key, attr, value) ==
    {it \in t : it.threadKey # key}
        \cup {[f \in {"threadKey", attr} |-> IF f = attr THEN value ELSE key]}

\* UpdateCommand 'SET attr = :value': sets the one attribute, and creates the
\* item when the key has none (UpdateItem is an upsert)
UpdateItem(t, key, attr, value) ==
    LET old == GetItem(t, key)
        base == IF old = NoItem THEN [threadKey |-> key] ELSE old
        new == [f \in (DOMAIN base) \cup {attr} |->
                   IF f = attr THEN value ELSE base[f]]
    IN  {it \in t : it.threadKey # key} \cup {new}

(************************ SMS / WhatsApp sessions **************************)
\* .replace(/^whatsapp:/i, '')
StripWhatsAppPrefix(s) ==
    IF StartsWithIgnoreCase(s, <<"w", "h", "a", "t", "s", "a", "p", "p", ":">>)
    THEN SubSeq(s, 10, Len(s))
    ELSE s

\* StripPhonePunctuation that leaves the parentheses in
StripPhonePunctuationNoParens(s) ==
    SelectSeq(s, LAMBDA c : ~(IsSpace(c) \/ c \in {"-", "+"}))

\* .replace(/[\s\-\(\)\+]/g, '')
StripPhonePunctuation(s) ==
    SelectSeq(s, LAMBDA c : ~(IsSpace(c) \/ c \in {"-", "(", ")", "+"}))

normalizePhoneNumber(phoneNumber) ==
    toLowerCase(StripPhonePunctuation(StripWhatsAppPrefix(phoneNumber)))

ChannelString(channel) ==
    IF channel = "sms" THEN <<"s", "m", "s">>
    ELSE <<"w", "h", "a", "t", "s", "a", "p", "p">>

generateSmsWhatsAppSessionKey(channel, phoneNumber) ==
    ChannelString(channel) \o <<"-">> \o normalizePhoneNumber(phoneNumber)

generateSmsWhatsAppSessionId(phoneNumber, sessionVersion) ==
    normalizePhoneNumber(phoneNumber) \o <<"-", "v">> \o NumberToString(sessionVersion)

\* PhoneNumberMissing without the trim
PhoneNumberMissingNoTrim(phoneNumber) ==
    \/ phoneNumber = Absent
    \/ phoneNumber = <<>>

\* PhoneNumberMissing for an absent argument only
PhoneNumberMissingOnlyAbsent(phoneNumber) ==
    phoneNumber = Absent

\* !phoneNumber || !phoneNumber.trim()
PhoneNumberMissing(phoneNumber) ==
    \/ phoneNumber = Absent
    \/ phoneNumber = <<>>
    \/ trim(phoneNumber) = <<>>

\* messageText && messageText.trim().toLowerCase().includes('new session')
wantsNewSession(messageText) ==
    /\ messageText # Absent
    /\ messageText # <<>>
    /\ includes(toLowerCase(trim(messageText)),
                <<"n", "e", "w", " ", "s", "e", "s", "s", "i", "o", "n">>)

\* typeof sessionVersion === 'number' && typeof lastActivity === 'number'
HasRequiredFields(item) ==
    /\ "sessionVersion" \in DOMAIN item
    /\ "lastActivity" \in DOMAIN item

\* existingSession.isActive !== false
IsActive(item) ==
    ~("isActive" \in DOMAIN item /\ item.isActive = FALSE)

\* WithinGap with the boundary left out
WithinGapStrict(now, lastActivity) ==
    now - lastActivity < SESSION_GAP_SMS_WA

\* timeSinceLastActivity <= SESSION_GAP_SMS_WA
WithinGap(now, lastActivity) ==
    now - lastActivity <= SESSION_GAP_SMS_WA

\* the SmsWhatsAppSessionRecord literal, with threadKey as the put adds it
SmsSessionItem(channel, phoneNumber, sessionVersion, now) ==
    [ threadKey      |-> generateSmsWhatsAppSessionKey(channel, phoneNumber),
      sessionKey     |-> generateSmsWhatsAppSessionKey(channel, phoneNumber),
      sessionId      |-> generateSmsWhatsAppSessionId(phoneNumber, sessionVersion),
      channel        |-> channel,
      phoneNumber    |-> normalizePhoneNumber(phoneNumber),
      sessionVersion |-> sessionVersion,
      createdAt      |-> now,
      lastActivity   |-> now,
      isActive       |-> TRUE ]

\* SmsFallbackSessionId from the phone number as given
SmsFallbackSessionIdRaw(phoneNumber) ==
    phoneNumber \o <<"-", "v", "1">>

\* the catch block's id
SmsFallbackSessionId(phoneNumber) ==
    normalizePhoneNumber(phoneNumber) \o <<"-", "v", "1">>

\* SmsBranch with the time-gap rule ahead of the "new session" command
SmsBranchGapFirst(item, messageText, now) ==
    IF item = NoItem \/ ~HasRequiredFields(item) THEN "putFirst"
    ELSE IF IsActive(item) /\ WithinGap(now, item.lastActivity) THEN "touch"
    ELSE IF wantsNewSession(messageText) THEN "endForNew"
    ELSE IF IsActive(item) THEN "endForGap"
    ELSE "putEnded"

\* Where the code goes once the Get has answered: the branch it takes.
SmsBranch(item, messageText, now) ==
    IF item = NoItem \/ ~HasRequiredFields(item) THEN "putFirst"
    ELSE IF wantsNewSession(messageText) THEN "endForNew"
    ELSE IF IsActive(item) THEN
        IF WithinGap(now, item.lastActivity) THEN "touch" ELSE "endForGap"
    ELSE "putEnded"

\* SmsNewVersion without the increment
SmsNewVersionKept(pc, item) ==
    IF pc = "putFirst" THEN 1 ELSE item.sessionVersion

\* the version the branch's Put writes
SmsNewVersion(pc, item) ==
    IF pc = "putFirst" THEN 1 ELSE item.sessionVersion + 1

(****************************** email sessions *****************************)
\* " RE:  ab", "Ab", "", and a subject that spells a key's sender part
Subjects ==
    { <<"A", "b">>,
      <<" ", "R", "E", ":", " ", " ", "a", "b">>,
      <<>>,
      <<"a", "b", "|", "f", "r", "o", "m", ":", "c", "@", "d", ".", "e">> }

\* "c@D.e" and an absent sender
Senders == { <<"c", "@", "D", ".", "e">>, Absent }

\* time between two reads of Date.now() around an email: 5 minutes, a week and 1 ms
EmailDeltas == {300000, SESSION_GAP_MAIL + 1}

\* the subjects of a reply chain: "Invoice #42", "Re: Invoice #42" and
\* " FWD: Re:  invoice #42"
MailSubjects ==
    { <<"I", "n", "v", "o", "i", "c", "e", " ", "#", "4", "2">>,
      <<"R", "e", ":", " ", "I", "n", "v", "o", "i", "c", "e", " ", "#",
        "4", "2">>,
      <<" ", "F", "W", "D", ":", " ", "R", "e", ":", " ", " ", "i", "n",
        "v", "o", "i", "c", "e", " ", "#", "4", "2">> }

\* From headers as the callers pass them: "Jane Doe <jane@x.com>" (the Gmail
\* webhook passes the header as it is), "jane@x.com", "j.d@x.com", "j-d@x.com"
MailSenders ==
    { <<"J", "a", "n", "e", " ", "D", "o", "e", " ", "<", "j", "a", "n",
        "e", "@", "x", ".", "c", "o", "m", ">">>,
      <<"j", "a", "n", "e", "@", "x", ".", "c", "o", "m">>,
      <<"j", ".", "d", "@", "x", ".", "c", "o", "m">>,
      <<"j", "-", "d", "@", "x", ".", "c", "o", "m">> }

\* value || ''
OrEmpty(value) == IF value = Absent THEN <<>> ELSE value

\* .replace(/^(re|fwd?):\s*/i, '')
StripReplyMarker(s) ==
    LET markers == << <<"r", "e", ":">>, <<"f", "w", "d", ":">>, <<"f", "w", ":">> >>
        hits == {i \in 1..3 : StartsWithIgnoreCase(s, markers[i])}
    IN  IF hits = {} THEN s
        ELSE LET i == CHOOSE j \in hits : TRUE
             IN  trimStart(SubSeq(s, Len(markers[i]) + 1, Len(s)))

\* .replace(/\s+/g, with): every run of whitespace becomes `with`
RECURSIVE ReplaceSpaceRuns(_, _)
ReplaceSpaceRuns(s, with) ==
    IF s = <<>> THEN <<>>
    ELSE IF IsSpace(Head(s)) THEN with \o ReplaceSpaceRuns(trimStart(s), with)
    ELSE <<Head(s)>> \o ReplaceSpaceRuns(Tail(s), with)

\* .trim().replace(/^(re|fwd?):\s*/i, '').replace(/\s+/g, ' ').toLowerCase()
NormalizeSubject(subject) ==
    toLowerCase(ReplaceSpaceRuns(StripReplyMarker(trim(subject)), <<" ">>))

\* .replace(/-+/g, '-')
RECURSIVE CollapseHyphens(_)
CollapseHyphens(s) ==
    IF Len(s) < 2 THEN s
    ELSE IF s[1] = "-" /\ s[2] = "-" THEN CollapseHyphens(Tail(s))
    ELSE <<Head(s)>> \o CollapseHyphens(Tail(s))

\* .replace(/^-|-$/g, '')
StripEdgeHyphens(s) ==
    LET a == IF s # <<>> /\ Head(s) = "-" THEN Tail(s) ELSE s
    IN  IF a # <<>> /\ a[Len(a)] = "-" THEN SubSeq(a, 1, Len(a) - 1) ELSE a

IsLowerAlnum(c) ==
    \/ \E i \in 1..26 : LowerChars[i] = c
    \/ \E i \in 1..10 : DigitChars[i] = c

normalizeSubjectForSessionId(subject) ==
    IF subject = <<>> THEN <<>>
    ELSE LET normalized == NormalizeSubject(subject)
             \* .replace(/[^a-z0-9\s-]/g, '-')
             safe == [i \in 1..Len(normalized) |->
                        IF IsLowerAlnum(normalized[i]) \/ IsSpace(normalized[i])
                           \/ normalized[i] = "-"
                        THEN normalized[i] ELSE "-"]
             cleaned == StripEdgeHyphens(CollapseHyphens(ReplaceSpaceRuns(safe, <<"-">>)))
         IN  SubSeq(cleaned, 1, IF Len(cleaned) < 50 THEN Len(cleaned) ELSE 50)

\* the n-th value of uuidv4(): no two draws are equal
Uuid(n) == <<"#">> \o NumberToString(n)

\* generateEmailSessionKey that keys by the Gmail thread id when there is one
generateEmailSessionKeyByThreadId(identifier, uuid) ==
    IF identifier.threadId # Absent
    THEN <<"e", "m", "a", "i", "l", "-", "t", "h", "r", "e", "a", "d", ":">>
             \o identifier.threadId
    ELSE <<"e", "m", "a", "i", "l", "-">> \o uuid

\* generateEmailSessionKey; uuid is the value uuidv4() gives if it is called
generateEmailSessionKey(identifier, uuid) ==
    LET normalizedSubject == NormalizeSubject(OrEmpty(identifier.subject))
        subjectPart == IF normalizedSubject # <<>>
                       THEN << <<"s", "u", "b", "j", "e", "c", "t", ":">> \o normalizedSubject >>
                       ELSE <<>>
        fromPart == IF OrEmpty(identifier.senderEmail) # <<>>
                    THEN << <<"f", "r", "o", "m", ":">> \o toLowerCase(identifier.senderEmail) >>
                    ELSE <<>>
        parts == subjectPart \o fromPart
    IN  IF Len(parts) = 0
        THEN <<"e", "m", "a", "i", "l", "-", "f", "a", "l", "l", "b", "a", "c", "k", "-">> \o uuid
        ELSE <<"e", "m", "a", "i", "l", "-">> \o
             (IF Len(parts) = 1 THEN parts[1] ELSE parts[1] \o <<"|">> \o parts[2])

\* whether generateEmailSessionKey calls uuidv4()
EmailKeyDrawsUuid(identifier) ==
    /\ NormalizeSubject(OrEmpty(identifier.subject)) = <<>>
    /\ OrEmpty(identifier.senderEmail) = <<>>

\* .toLowerCase().replace(/[@.]/g, '-')
SenderForSessionId(sender) ==
    [i \in 1..Len(sender) |->
        IF sender[i] \in {"@", "."} THEN "-" ELSE LowerChar(sender[i])]

\* the id template: from-subject-vN, or from-vN when the subject part is empty
EmailSessionId(sender, subject, sessionVersion) ==
    LET normalizedSubjectForId == normalizeSubjectForSessionId(subject)
        normalizedFrom == SenderForSessionId(sender)
    IN  IF normalizedSubjectForId # <<>>
        THEN normalizedFrom \o <<"-">> \o normalizedSubjectForId \o <<"-", "v">>
                 \o NumberToString(sessionVersion)
        ELSE normalizedFrom \o <<"-", "v">> \o NumberToString(sessionVersion)

\* EmailFallbackSessionId giving the empty string
EmailFallbackSessionIdEmpty(identifier) ==
    <<>>

\* the catch block's id: the sender defaults to 'unknown'
EmailFallbackSessionId(identifier) ==
    EmailSessionId(IF OrEmpty(identifier.senderEmail) = <<>>
                   THEN <<"u", "n", "k", "n", "o", "w", "n">>
                   ELSE identifier.senderEmail,
                   OrEmpty(identifier.subject), 1)

\* SameSubjectAndSender on the subject and sender as they were given
SameSubjectAndSenderAsGiven(identifier, item) ==
    /\ OrEmpty(identifier.subject) =
           (IF "subject" \in DOMAIN item THEN item.subject ELSE <<>>)
    /\ OrEmpty(identifier.senderEmail) =
           (IF "senderEmail" \in DOMAIN item THEN item.senderEmail ELSE <<>>)

\* normalizedSubject === existingSubject && normalizedFrom === existingFrom
SameSubjectAndSender(identifier, item) ==
    /\ NormalizeSubject(OrEmpty(identifier.subject)) =
           NormalizeSubject(IF "subject" \in DOMAIN item THEN item.subject ELSE <<>>)
    /\ toLowerCase(OrEmpty(identifier.senderEmail)) =
           toLowerCase(IF "senderEmail" \in DOMAIN item THEN item.senderEmail ELSE <<>>)

\* EmailBranch with sessions that expire SESSION_GAP_MAIL after the last activity
EmailBranchExpiring(identifier, item) ==
    IF item = NoItem THEN "putFirst"
    ELSE IF SameSubjectAndSender(identifier, item)
            /\ clock - item.lastActivity <= SESSION_GAP_MAIL THEN "touch"
    ELSE "putChanged"

\* Where the code goes once the Get has answered: subject and sender only.
EmailBranch(identifier, item) ==
    IF item = NoItem THEN "putFirst"
    ELSE IF SameSubjectAndSender(identifier, item) THEN "touch"
    ELSE "putChanged"

\* (existingSession.sessionVersion || 0) + 1, or 1 for the first session
EmailNewVersion(pc, item) ==
    IF pc = "putFirst" THEN 1
    ELSE (IF "sessionVersion" \in DOMAIN item THEN item.sessionVersion ELSE 0) + 1

\* the EmailSessionRecord literal, with threadKey as the put adds it
EmailSessionItem(identifier, sessionKey, sessionVersion, now) ==
    [ threadKey      |-> sessionKey,
      sessionKey     |-> sessionKey,
      sessionId      |-> EmailSessionId(OrEmpty(identifier.senderEmail),
                                        OrEmpty(identifier.subject), sessionVersion),
      senderEmail    |-> OrEmpty(identifier.senderEmail),
      subject        |-> OrEmpty(identifier.subject),
      sessionVersion |-> sessionVersion,
      createdAt      |-> now,
      lastActivity   |-> now,
      threadId       |-> identifier.threadId,
      inReplyTo      |-> identifier.inReplyTo,
      references     |-> identifier.references ]

(*********** time-windowed generators (src/src/utils/sessionId.ts) **********)
fiveMinutesInMs == 300000

\* "+1 2" and "whatsapp:+12"
WindowPhones ==
    { <<"+", "1", " ", "2">>,
      <<"w", "h", "a", "t", "s", "a", "p", "p", ":", "+", "1", "2">> }

\* the WaId "34", or none
WaIds == { <<"3", "4">>, Absent }

\* time between two reads of Date.now(): 1 ms, 5 minutes less 1 ms
WindowDeltas == {1, fiveMinutesInMs - 1}

\* ConversationStartTime rounding up to the next multiple of 5 minutes
ConversationStartTimeCeil(now) ==
    ((now + fiveMinutesInMs - 1) \div fiveMinutesInMs) * fiveMinutesInMs

\* ConversationStartTime with buckets of 10 minutes
ConversationStartTimeTenMinutes(now) ==
    (now \div (2 * fiveMinutesInMs)) * (2 * fiveMinutesInMs)

\* Math.floor(now / fiveMinutesInMs) * fiveMinutesInMs
ConversationStartTime(now) ==
    (now \div fiveMinutesInMs) * fiveMinutesInMs

\* .replace(/^whatsapp:/, ''): the prefix in lower case only
StripWhatsAppPrefixLowerCase(s) ==
    IF Len(s) >= 9 /\ SubSeq(s, 1, 9) = <<"w", "h", "a", "t", "s", "a", "p", "p", ":">>
    THEN SubSeq(s, 10, Len(s))
    ELSE s

\* `sms-${normalized}-${conversationStartTimeStr}`
SmsWindowSessionId(phoneNumber, now) ==
    <<"s", "m", "s", "-">> \o StripPhonePunctuation(phoneNumber) \o <<"-">>
        \o NumberToString(ConversationStartTime(now))

\* `whatsapp-${waId}-${...}` if (waId), else `whatsapp-${normalized}-${...}`
WhatsAppWindowSessionId(phoneNumber, waId, now) ==
    <<"w", "h", "a", "t", "s", "a", "p", "p", "-">>
        \o (IF OrEmpty(waId) # <<>> THEN waId
            ELSE StripPhonePunctuation(StripWhatsAppPrefixLowerCase(phoneNumber)))
        \o <<"-">> \o NumberToString(ConversationStartTime(now))

(***************************** invocations *********************************)
Idle == [pc |-> "idle"]

\* Records already in the table when the functions are deployed: records of an
\* earlier schema under the key of "+1 2" on sms, which lack lastActivity, or
\* lastActivity and sessionVersion (the records the field check is there for).
LegacyItems ==
    { [ threadKey      |-> generateSmsWhatsAppSessionKey("sms", <<"1", "2">>),
        sessionId      |-> generateSmsWhatsAppSessionId(<<"1", "2">>, 2),
        sessionVersion |-> 2,
        isActive       |-> TRUE ],
      [ threadKey      |-> generateSmsWhatsAppSessionKey("sms", <<"1", "2">>),
        sessionId      |-> generateSmsWhatsAppSessionId(<<"1", "2">>, 1) ] }

InitialTables == {{}} \cup {{it} : it \in LegacyItems}

\* a new, empty table
Init ==
    /\ table = {}
    /\ inv = [p \in Procs |-> Idle]
    /\ clock = 0
    /\ calls = 0
    /\ uuids = 0
    /\ issued = <<>>

\* a table that may hold a record of the earlier schema, whose id was issued
InitLegacy ==
    /\ table \in InitialTables
    /\ inv = [p \in Procs |-> Idle]
    /\ clock = 0
    /\ calls = 0
    /\ uuids = 0
    /\ issued = IF table = {} THEN <<>>
                ELSE LET it == CHOOSE x \in table : TRUE
                     IN  <<(<<it.threadKey, it.sessionId>>)>>

\* getOrCreateSmsWhatsAppSession is called: the phone number check, the key,
\* Date.now() and the "new session" test, up to the first await.
SmsStart(p, limit, phoneNumbers, deltas) ==
    /\ inv[p].pc = "idle"
    /\ calls < limit
    /\ \E channel \in Channels, phoneNumber \in phoneNumbers,
          messageText \in MessageTexts, d \in deltas :
          /\ clock' = clock + d
          /\ inv' = [inv EXCEPT ![p] =
                [ pc          |-> IF PhoneNumberMissing(phoneNumber) THEN "done" ELSE "get",
                  fn          |-> "sms",
                  channel     |-> channel,
                  phoneNumber |-> phoneNumber,
                  messageText |-> messageText,
                  sessionKey  |-> IF PhoneNumberMissing(phoneNumber) THEN <<>>
                                  ELSE generateSmsWhatsAppSessionKey(channel, phoneNumber),
                  now         |-> clock',
                  before      |-> IF PhoneNumberMissing(phoneNumber) THEN NoItem
                                  ELSE GetItem(table,
                                         generateSmsWhatsAppSessionKey(channel, phoneNumber)),
                  item        |-> NoItem,
                  ops         |-> <<>>,
                  failed      |-> FALSE,
                  thrown      |-> PhoneNumberMissing(phoneNumber),
                  returned    |-> <<>> ]]
    /\ calls' = calls + 1
    /\ UNCHANGED <<table, uuids, issued>>

\* await docClient.send(new GetCommand(...)) answers
SmsGet(p) ==
    /\ inv[p].pc = "get"
    /\ inv[p].fn = "sms"
    /\ LET item == GetItem(table, inv[p].sessionKey)
       IN  inv' = [inv EXCEPT ![p].item = item,
                              ![p].ops = Append(@, "get"),
                              ![p].pc = SmsBranch(item, inv[p].messageText, inv[p].now)]
    /\ UNCHANGED <<table, clock, calls, uuids, issued>>

\* await docClient.send(new UpdateCommand('SET isActive = :inactive')) answers
SmsMarkInactive(p) ==
    /\ inv[p].pc \in {"endForNew", "endForGap"}
    /\ table' = UpdateItem(table, inv[p].sessionKey, "isActive", FALSE)
    /\ inv' = [inv EXCEPT ![p].ops = Append(@, "update"),
                          ![p].pc = IF inv[p].pc = "endForNew" THEN "putNew" ELSE "putGap"]
    /\ UNCHANGED <<clock, calls, uuids, issued>>

\* await docClient.send(new UpdateCommand('SET lastActivity = :now')) answers;
\* return existingSession.sessionId
SmsTouch(p) ==
    /\ inv[p].pc = "touch"
    /\ inv[p].fn = "sms"
    /\ table' = UpdateItem(table, inv[p].sessionKey, "lastActivity", inv[p].now)
    /\ inv' = [inv EXCEPT ![p].ops = Append(@, "update"),
                          ![p].pc = "done",
                          ![p].returned = inv[p].item.sessionId]
    /\ UNCHANGED <<clock, calls, uuids, issued>>

\* await docClient.send(new PutCommand(...)) answers; return newSessionId
SmsPut(p) ==
    /\ inv[p].pc \in {"putFirst", "putNew", "putGap", "putEnded"}
    /\ inv[p].fn = "sms"
    /\ LET newSession == SmsSessionItem(inv[p].channel, inv[p].phoneNumber,
                                        SmsNewVersion(inv[p].pc, inv[p].item), inv[p].now)
       IN  /\ table' = PutItem(table, newSession)
           /\ issued' = Append(issued, <<newSession.sessionKey, newSession.sessionId>>)
           /\ inv' = [inv EXCEPT ![p].ops = Append(@, "put"),
                                 ![p].pc = "done",
                                 ![p].returned = newSession.sessionId]
    /\ UNCHANGED <<clock, calls, uuids>>

\* the awaited store operation rejects: the catch block returns the fallback id
SmsStoreError(p) ==
    /\ inv[p].pc \in {"get", "endForNew", "endForGap", "touch",
                      "putFirst", "putNew", "putGap", "putEnded"}
    /\ inv[p].fn = "sms"
    /\ inv' = [inv EXCEPT ![p].ops = Append(@, "error"),
                          ![p].failed = TRUE,
                          ![p].pc = "done",
                          ![p].returned = SmsFallbackSessionId(inv[p].phoneNumber)]
    /\ UNCHANGED <<table, clock, calls, uuids, issued>>

\* the optional fields of ThreadIdentifier: none given, as the poller calls it
NoThreadFields ==
    { [threadId |-> Absent, inReplyTo |-> Absent, references |-> Absent] }

\* ... and as a caller with the Gmail thread id and the reply headers gives
\* them: none, thread "t1" in reply to "m1", thread "t2"
ThreadFields ==
    NoThreadFields \cup
    { [threadId |-> <<"t", "1">>, inReplyTo |-> <<"m", "1">>, references |-> <<"m", "1">>],
      [threadId |-> <<"t", "2">>, inReplyTo |-> Absent, references |-> Absent] }

\* subjects "Ab" and "", sender "c@D.e" or none: the empty subject without
\* sender is the email without any identifier
ThreadSubjects == { <<"A", "b">>, <<>> }

ThreadSenders == { <<"c", "@", "D", ".", "e">>, Absent }

\* getOrCreateEmailSession is called: the key and Date.now(), up to the first await
EmailStart(p, limit, subjects, senders, threads, deltas) ==
    /\ inv[p].pc = "idle"
    /\ calls < limit
    /\ \E subject \in subjects, senderEmail \in senders, thread \in threads,
          d \in deltas :
          LET identifier == [ subject     |-> subject,
                              senderEmail |-> senderEmail,
                              threadId    |-> thread.threadId,
                              inReplyTo   |-> thread.inReplyTo,
                              references  |-> thread.references ]
          IN  /\ clock' = clock + d
              /\ uuids' = IF EmailKeyDrawsUuid(identifier) THEN uuids + 1 ELSE uuids
              /\ inv' = [inv EXCEPT ![p] =
                    [ pc         |-> "get",
                      fn         |-> "email",
                      identifier |-> identifier,
                      sessionKey |-> generateEmailSessionKey(identifier, Uuid(uuids')),
                      now        |-> clock',
                      before     |-> GetItem(table,
                                        generateEmailSessionKey(identifier, Uuid(uuids'))),
                      item       |-> NoItem,
                      ops        |-> <<>>,
                      failed     |-> FALSE,
                      thrown     |-> FALSE,
                      returned   |-> <<>> ]]
    /\ calls' = calls + 1
    /\ UNCHANGED <<table, issued>>

\* await docClient.send(new GetCommand(...)) answers
EmailGet(p) ==
    /\ inv[p].pc = "get"
    /\ inv[p].fn = "email"
    /\ LET item == GetItem(table, inv[p].sessionKey)
       IN  inv' = [inv EXCEPT ![p].item = item,
                              ![p].ops = Append(@, "get"),
                              ![p].pc = EmailBranch(inv[p].identifier, item)]
    /\ UNCHANGED <<table, clock, calls, uuids, issued>>

\* await docClient.send(new UpdateCommand('SET lastActivity = :now')) answers;
\* return existingSession.sessionId
EmailTouch(p) ==
    /\ inv[p].pc = "touch"
    /\ inv[p].fn = "email"
    /\ table' = UpdateItem(table, inv[p].sessionKey, "lastActivity", inv[p].now)
    /\ inv' = [inv EXCEPT ![p].ops = Append(@, "update"),
                          ![p].pc = "done",
                          ![p].returned = inv[p].item.sessionId]
    /\ UNCHANGED <<clock, calls, uuids, issued>>

\* await docClient.send(new PutCommand(...)) answers; return newSessionId
EmailPut(p) ==
    /\ inv[p].pc \in {"putFirst", "putChanged"}
    /\ inv[p].fn = "email"
    /\ LET newSession == EmailSessionItem(inv[p].identifier, inv[p].sessionKey,
                                          EmailNewVersion(inv[p].pc, inv[p].item), inv[p].now)
       IN  /\ table' = PutItem(table, newSession)
           /\ issued' = Append(issued, <<newSession.sessionKey, newSession.sessionId>>)
           /\ inv' = [inv EXCEPT ![p].ops = Append(@, "put"),
                                 ![p].pc = "done",
                                 ![p].returned = newSession.sessionId]
    /\ UNCHANGED <<clock, calls, uuids>>

\* the awaited store operation rejects: the catch block returns the fallback id
EmailStoreError(p) ==
    /\ inv[p].pc \in {"get", "touch", "putFirst", "putChanged"}
    /\ inv[p].fn = "email"
    /\ inv' = [inv EXCEPT ![p].ops = Append(@, "error"),
                          ![p].failed = TRUE,
                          ![p].pc = "done",
                          ![p].returned = EmailFallbackSessionId(inv[p].identifier)]
    /\ UNCHANGED <<table, clock, calls, uuids, issued>>

EmailStep(p) ==
    \/ EmailGet(p)
    \/ EmailTouch(p)
    \/ EmailPut(p)
    \/ EmailStoreError(p)

\* the caller has the result; the Lambda instance is free again
Finish(p) ==
    /\ inv[p].pc = "done"
    /\ inv' = [inv EXCEPT ![p] = Idle]
    /\ UNCHANGED <<table, clock, calls, uuids, issued>>

SmsStep(p) ==
    \/ SmsGet(p)
    \/ SmsMarkInactive(p)
    \/ SmsTouch(p)
    \/ SmsPut(p)
    \/ SmsStoreError(p)

\* one Lambda instance, one resolution at a time, SMS and WhatsApp messages
Next ==
    \E p \in {1} :
        \/ SmsStart(p, MaxCalls, RawPhones, Deltas)
        \/ SmsStep(p)
        \/ Finish(p)

Spec == Init /\ [][Next]_vars

\* the same, on a table that may hold a record of the earlier schema
SpecLegacy == InitLegacy /\ [][Next]_vars

\* one Lambda instance, one resolution at a time, messages of every channel
NextAll ==
    \E p \in {1} :
        \/ SmsStart(p, MaxAllCalls, RawPhones, Deltas)
        \/ SmsStep(p)
        \/ EmailStart(p, MaxAllCalls, Subjects, Senders, NoThreadFields, EmailDeltas)
        \/ EmailStep(p)
        \/ Finish(p)

SpecAll == Init /\ [][NextAll]_vars

\* one Lambda instance, one resolution at a time, the emails of a reply chain
NextMail ==
    \E p \in {1} :
        \/ EmailStart(p, MaxMailCalls, MailSubjects, MailSenders, NoThreadFields, EmailDeltas)
        \/ EmailStep(p)
        \/ Finish(p)

SpecMail == Init /\ [][NextMail]_vars

\* one Lambda instance, one resolution at a time, one number in several renderings
NextRenderings ==
    \E p \in {1} :
        \/ SmsStart(p, MaxRenderingCalls, PhoneRenderings, RenderingDeltas)
        \/ SmsStep(p)
        \/ Finish(p)

SpecRenderings == Init /\ [][NextRenderings]_vars

\* one Lambda instance, one resolution at a time, phone numbers of any shape
NextNormalize ==
    \E p \in {1} :
        \/ SmsStart(p, MaxNormalizeCalls, NormalizeInputs, {300000})
        \/ SmsStep(p)
        \/ Finish(p)

SpecNormalize == Init /\ [][NextNormalize]_vars

\* two Lambda instances resolve emails that carry thread fields
NextThread ==
    \E p \in Procs :
        \/ EmailStart(p, MaxThreadCalls, ThreadSubjects, ThreadSenders, ThreadFields,
                      {fiveMinutesInMs})
        \/ EmailStep(p)
        \/ Finish(p)

SpecThread == Init /\ [][NextThread]_vars

(******** the handlers that resolve a session and call the query API ********)
\* payload.WaId: "34" or none; payload.From: "whatsapp:+12" or empty;
\* payload.Body: "hi", " " or none
PayloadWaIds == { <<"3", "4">>, Absent }

PayloadFroms ==
    { <<"w", "h", "a", "t", "s", "a", "p", "p", ":", "+", "1", "2">>, <<>> }

PayloadBodies == { <<"h", "i">>, <<" ">>, Absent }

\* the poller's subject ("Ab" or its default "(No Subject)"), extracted sender
\* ("c@D.e" or the default "Unknown") and sanitized body ("hi" or empty)
PolledSubjects ==
    { <<"A", "b">>,
      <<"(", "N", "o", " ", "S", "u", "b", "j", "e", "c", "t", ")">> }

PolledSenders == { <<"c", "@", "D", ".", "e">>, <<"U", "n", "k", "n", "o", "w", "n">> }

PolledBodies == { <<"h", "i">>, <<>> }

\* text && text.trim()
HasText(text) == text # Absent /\ text # <<>> /\ trim(text) # <<>>

\* The WhatsApp webhook has logged the message: phoneNumber = WaId || From, the
\* 400 answer when it is missing, else getOrCreateSmsWhatsAppSession is called
\* (up to its first await).
WhatsAppWebhookStart(p) ==
    /\ inv[p].pc = "idle"
    /\ calls < MaxRelayCalls
    /\ \E waId \in PayloadWaIds, from \in PayloadFroms, body \in PayloadBodies,
          d \in Deltas :
          LET phoneNumber == IF OrEmpty(waId) # <<>> THEN waId ELSE from
              missing == PhoneNumberMissing(phoneNumber)
          IN  /\ clock' = clock + d
              /\ inv' = [inv EXCEPT ![p] =
                    [ pc          |-> IF missing THEN "responded" ELSE "get",
                      fn          |-> "sms",
                      handler     |-> "whatsappWebhook",
                      statusCode  |-> IF missing THEN 400 ELSE 0,
                      text        |-> body,
                      from        |-> from,
                      queried     |-> FALSE,
                      querySessionId |-> <<>>,
                      replied     |-> FALSE,
                      channel     |-> "whatsapp",
                      phoneNumber |-> phoneNumber,
                      messageText |-> body,
                      sessionKey  |-> IF missing THEN <<>>
                                      ELSE generateSmsWhatsAppSessionKey("whatsapp", phoneNumber),
                      now         |-> clock',
                      before      |-> IF missing THEN NoItem
                                      ELSE GetItem(table,
                                             generateSmsWhatsAppSessionKey("whatsapp", phoneNumber)),
                      item        |-> NoItem,
                      ops         |-> <<>>,
                      failed      |-> FALSE,
                      thrown      |-> FALSE,
                      returned    |-> <<>> ]]
    /\ calls' = calls + 1
    /\ UNCHANGED <<table, uuids, issued>>

\* The poller has read and sanitized an email: the thread identifier of
\* subject and sender, and getOrCreateSessionId is called (up to its first
\* await); emailText = sanitizedBody || subject.
PollerStart(p) ==
    /\ inv[p].pc = "idle"
    /\ calls < MaxRelayCalls
    /\ \E subject \in PolledSubjects, senderEmail \in PolledSenders,
          sanitizedBody \in PolledBodies, d \in EmailDeltas :
          LET identifier == [ subject     |-> subject,
                              senderEmail |-> senderEmail,
                              threadId    |-> Absent,
                              inReplyTo   |-> Absent,
                              references  |-> Absent ]
          IN  /\ clock' = clock + d
              /\ inv' = [inv EXCEPT ![p] =
                    [ pc         |-> "get",
                      fn         |-> "email",
                      handler    |-> "poller",
                      statusCode |-> 0,
                      text       |-> IF sanitizedBody # <<>> THEN sanitizedBody ELSE subject,
                      queried    |-> FALSE,
                      querySessionId |-> <<>>,
                      replied    |-> FALSE,
                      identifier |-> identifier,
                      sessionKey |-> generateEmailSessionKey(identifier, Uuid(uuids)),
                      now        |-> clock',
                      before     |-> GetItem(table,
                                        generateEmailSessionKey(identifier, Uuid(uuids))),
                      item       |-> NoItem,
                      ops        |-> <<>>,
                      failed     |-> FALSE,
                      thrown     |-> FALSE,
                      returned   |-> <<>> ]]
    /\ calls' = calls + 1
    /\ UNCHANGED <<table, uuids, issued>>

\* The reply goes out (the messaging client being configured and the query API
\* answering): on WhatsApp to the sender number taken from payload.From, with
\* the default message when there is no body; in the poller after the query,
\* to a sender address that holds an "@".
ReplySent(r) ==
    IF r.handler = "whatsappWebhook"
    THEN StripWhatsAppPrefixLowerCase(r.from) # <<>>
    ELSE HasText(r.text) /\ includes(r.identifier.senderEmail, <<"@">>)

\* The resolution has returned sessionId to the handler: callQueryApi(text,
\* sessionId, channel) if the text is not blank, then the reply.
Relay(p) ==
    /\ inv[p].pc = "done"
    /\ "handler" \in DOMAIN inv[p]
    /\ inv' = [inv EXCEPT ![p].pc = "responded",
                          ![p].statusCode = 200,
                          ![p].queried = HasText(inv[p].text),
                          ![p].replied = ReplySent(inv[p]),
                          ![p].querySessionId = IF HasText(inv[p].text)
                                                THEN inv[p].returned ELSE <<>>]
    /\ UNCHANGED <<table, clock, calls, uuids, issued>>

\* the handler has answered; the Lambda instance is free again
Respond(p) ==
    /\ inv[p].pc = "responded"
    /\ inv' = [inv EXCEPT ![p] = Idle]
    /\ UNCHANGED <<table, clock, calls, uuids, issued>>

\* one Lambda instance at a time runs the WhatsApp webhook or the Gmail poller
NextRelay ==
    \E p \in {1} :
        \/ WhatsAppWebhookStart(p)
        \/ SmsStep(p)
        \/ PollerStart(p)
        \/ EmailStep(p)
        \/ Relay(p)
        \/ Respond(p)

SpecRelay == Init /\ [][NextRelay]_vars

\* the same, for messages that arrive more than the gap after the previous one
NextRace ==
    \E p \in Procs :
        \/ SmsStart(p, MaxRaceCalls, ConcPhones, RaceDeltas)
        \/ SmsStep(p)
        \/ Finish(p)

SpecRace == Init /\ [][NextRace]_vars

\* generateSmsSessionId(phoneNumber) is called and returns (no await in it)
GenerateSmsSessionId(p) ==
    /\ inv[p].pc = "idle"
    /\ calls < MaxWindowCalls
    /\ \E phoneNumber \in WindowPhones, d \in WindowDeltas :
          /\ clock' = clock + d
          /\ inv' = [inv EXCEPT ![p] =
                [ pc          |-> "done",
                  fn          |-> "generateSms",
                  phoneNumber |-> phoneNumber,
                  waId        |-> Absent,
                  now         |-> clock',
                  conversationStartTime |-> ConversationStartTime(clock'),
                  failed      |-> FALSE,
                  thrown      |-> FALSE,
                  returned    |-> SmsWindowSessionId(phoneNumber, clock') ]]
    /\ calls' = calls + 1
    /\ UNCHANGED <<table, uuids, issued>>

\* generateWhatsAppSessionId(phoneNumber, waId) is called and returns
GenerateWhatsAppSessionId(p) ==
    /\ inv[p].pc = "idle"
    /\ calls < MaxWindowCalls
    /\ \E phoneNumber \in WindowPhones, waId \in WaIds, d \in WindowDeltas :
          /\ clock' = clock + d
          /\ inv' = [inv EXCEPT ![p] =
                [ pc          |-> "done",
                  fn          |-> "generateWhatsApp",
                  phoneNumber |-> phoneNumber,
                  waId        |-> waId,
                  now         |-> clock',
                  conversationStartTime |-> ConversationStartTime(clock'),
                  failed      |-> FALSE,
                  thrown      |-> FALSE,
                  returned    |-> WhatsAppWindowSessionId(phoneNumber, waId, clock') ]]
    /\ calls' = calls + 1
    /\ UNCHANGED <<table, uuids, issued>>

\* webhook invocations that call the time-windowed generators; an instance
\* keeps its result until Finish
NextWindow ==
    \E p \in Procs :
        \/ GenerateSmsSessionId(p)
        \/ GenerateWhatsAppSessionId(p)
        \/ Finish(p)

SpecWindow == Init /\ [][NextWindow]_vars

\* resolutions of several Lambda instances interleave at their awaits
NextConc ==
    \E p \in Procs :
        \/ SmsStart(p, MaxConcCalls, ConcPhones, ConcDeltas)
        \/ SmsStep(p)
        \/ Finish(p)

SpecConc == Init /\ [][NextConc]_vars

(***************************************************************************)
(*                               Properties                                *)
(***************************************************************************)
\* a resolution of getOrCreateSmsWhatsAppSession that has ended
SmsDone(p) == inv[p].pc = "done" /\ inv[p].fn = "sms"

\* the record the table holds under the key
Stored(key) == GetItem(table, key)

\* the text holds the phrase "new session", in any letter case
SaysNewSession(messageText) ==
    /\ messageText # Absent
    /\ includes(toLowerCase(messageText),
                <<"n", "e", "w", " ", "s", "e", "s", "s", "i", "o", "n">>)

\* the record the Get returned is well-formed: sessionVersion and lastActivity are there
ReadWellFormed(p) ==
    /\ inv[p].item # NoItem
    /\ "sessionVersion" \in DOMAIN inv[p].item
    /\ "lastActivity" \in DOMAIN inv[p].item

\* ... and it is active
ReadActive(p) ==
    ~("isActive" \in DOMAIN inv[p].item /\ inv[p].item.isActive = FALSE)

\* time since the read record's last activity
Elapsed(p) == inv[p].now - inv[p].item.lastActivity

\* the record a new session of the given version consists of
ExpectedSmsRecord(p, version) ==
    [ threadKey      |-> inv[p].sessionKey,
      sessionKey     |-> inv[p].sessionKey,
      sessionId      |-> normalizePhoneNumber(inv[p].phoneNumber) \o <<"-", "v">>
                             \o NumberToString(version),
      channel        |-> inv[p].channel,
      phoneNumber    |-> normalizePhoneNumber(inv[p].phoneNumber),
      sessionVersion |-> version,
      createdAt      |-> inv[p].now,
      lastActivity   |-> inv[p].now,
      isActive       |-> TRUE ]

\* C1: SMS/WhatsApp continuation. With the store working and one resolution at
\* a time, a message without "new session" that finds a well-formed active
\* record with now - lastActivity <= SESSION_GAP_SMS_WA (boundary included) is
\* answered with the stored sessionId unchanged, and the record keeps that id,
\* so the next message within the gap gets it again.
C1_Continuation ==
    \A p \in Procs :
        ( /\ SmsDone(p)
          /\ ~inv[p].thrown
          /\ ~inv[p].failed
          /\ ReadWellFormed(p)
          /\ ReadActive(p)
          /\ ~SaysNewSession(inv[p].messageText)
          /\ Elapsed(p) <= SESSION_GAP_SMS_WA )
        => /\ inv[p].returned = inv[p].item.sessionId
           /\ Stored(inv[p].sessionKey).sessionId = inv[p].item.sessionId
           /\ Stored(inv[p].sessionKey).sessionVersion = inv[p].item.sessionVersion

\* C1 witness: a message exactly SESSION_GAP_SMS_WA after the last activity
\* continued the session.
C1_Witness ==
    \E p \in Procs :
        /\ SmsDone(p)
        /\ ~inv[p].failed
        /\ ReadWellFormed(p)
        /\ ReadActive(p)
        /\ ~SaysNewSession(inv[p].messageText)
        /\ Elapsed(p) = SESSION_GAP_SMS_WA
        /\ inv[p].returned = inv[p].item.sessionId

\* C2 as stated: every message that finds a well-formed active record with
\* now - lastActivity > SESSION_GAP_SMS_WA is answered with the id of version
\* stored + 1, and that new record is what the table holds afterwards.
C2_AsStated ==
    \A p \in Procs :
        ( /\ SmsDone(p)
          /\ ReadWellFormed(p)
          /\ ReadActive(p)
          /\ Elapsed(p) > SESSION_GAP_SMS_WA )
        => /\ inv[p].returned =
                  ExpectedSmsRecord(p, inv[p].item.sessionVersion + 1).sessionId
           /\ Stored(inv[p].sessionKey) =
                  ExpectedSmsRecord(p, inv[p].item.sessionVersion + 1)

\* C2 amended: gap rotation when every store operation of the resolution
\* succeeds and no other resolution overlaps it. Then the id of version
\* stored + 1 is returned and the table holds that new record; when a store
\* operation fails the fallback id is returned instead.
C2_GapRotation ==
    \A p \in Procs :
        ( /\ SmsDone(p)
          /\ ReadWellFormed(p)
          /\ ReadActive(p)
          /\ Elapsed(p) > SESSION_GAP_SMS_WA )
        => IF inv[p].failed
           THEN inv[p].returned =
                    normalizePhoneNumber(inv[p].phoneNumber) \o <<"-", "v", "1">>
           ELSE /\ inv[p].returned =
                       ExpectedSmsRecord(p, inv[p].item.sessionVersion + 1).sessionId
                /\ Stored(inv[p].sessionKey) =
                       ExpectedSmsRecord(p, inv[p].item.sessionVersion + 1)

\* C2 witness: a message without the command, 1 ms past the gap, rotated the
\* session.
C2_Witness ==
    \E p \in Procs :
        /\ SmsDone(p)
        /\ ~inv[p].failed
        /\ ReadWellFormed(p)
        /\ ReadActive(p)
        /\ ~SaysNewSession(inv[p].messageText)
        /\ Elapsed(p) = SESSION_GAP_SMS_WA + 1
        /\ Stored(inv[p].sessionKey).sessionVersion = inv[p].item.sessionVersion + 1
        /\ inv[p].returned = Stored(inv[p].sessionKey).sessionId

KeyOf(it) == IF "sessionKey" \in DOMAIN it THEN it.sessionKey ELSE it.threadKey

\* C4: in every reachable state of the table, under any interleaving of
\* resolutions, at most one record with isActive = true exists per sessionKey.
C4_OneActivePerKey ==
    \A it \in table :
        Cardinality({ other \in table :
                        /\ KeyOf(other) = KeyOf(it)
                        /\ "isActive" \in DOMAIN other
                        /\ other.isActive = TRUE }) <= 1

\* C4 witness: two overlapping resolutions have both put a record under the
\* same key, and the table holds one active record for it.
C4_Witness ==
    \E p \in Procs, q \in Procs :
        /\ p # q
        /\ SmsDone(p) /\ SmsDone(q)
        /\ inv[p].sessionKey = inv[q].sessionKey
        /\ inv[p].ops[Len(inv[p].ops)] = "put"
        /\ inv[q].ops[Len(inv[q].ops)] = "put"
        /\ inv[p].item = inv[q].item
        /\ Cardinality({ it \in table : KeyOf(it) = inv[p].sessionKey
                                        /\ "isActive" \in DOMAIN it
                                        /\ it.isActive = TRUE }) = 1

\* C5 as stated: sessionId uniqueness per key. Every record put (first session,
\* gap rotation, "new session", replacement of a malformed or inactive record)
\* carries a sessionId never issued before for its key: no <<key, id>> occurs
\* twice in the history of issued ids.
C5_IdsNeverReissued ==
    \A i \in 1..Len(issued), j \in 1..Len(issued) :
        i # j => issued[i] # issued[j]

\* C6 as stated: sessionVersion is monotonic per key. The first record under a
\* key has version 1, a record replacing one with a version has exactly that
\* version + 1, and the stored version never decreases.
C6_VersionMonotonic ==
    [][ \A it \in table' :
          LET old == GetItem(table, it.threadKey)
          IN  /\ ( old = NoItem /\ "sessionVersion" \in DOMAIN it )
                 => it.sessionVersion = 1
              /\ ( /\ old # NoItem
                   /\ "sessionVersion" \in DOMAIN old
                   /\ "sessionVersion" \in DOMAIN it )
                 => /\ it.sessionVersion >= old.sessionVersion
                    /\ it.sessionId # old.sessionId
                         => it.sessionVersion = old.sessionVersion + 1
      ]_vars

\* C7 as stated: a superseded session is retained. Once a resolution has
\* replaced the record it read by a new version, the table still holds the old
\* version's record, marked inactive, beside the new active one.
C7_SupersededRetained ==
    \A p \in Procs :
        ( /\ SmsDone(p)
          /\ ~inv[p].failed
          /\ ReadWellFormed(p)
          /\ inv[p].returned # inv[p].item.sessionId )
        => \E it \in table :
              /\ it.sessionId = inv[p].item.sessionId
              /\ "isActive" \in DOMAIN it
              /\ it.isActive = FALSE

\* C8: fallback on store failure. When the Get, an Update or the Put of a
\* resolution fails, the error is not propagated and the resolution returns
\* the non-empty string {normalizedPhone}-v1.
C8_FallbackOnStoreFailure ==
    \A p \in Procs :
        ( SmsDone(p) /\ inv[p].failed )
        => /\ ~inv[p].thrown
           /\ inv[p].returned # <<>>
           /\ inv[p].returned =
                  normalizePhoneNumber(inv[p].phoneNumber) \o <<"-", "v", "1">>
           /\ \A i \in 1..Len(inv[p].returned) :
                  inv[p].returned[i] \notin {"+", " ", "(", ")", ":"}

\* C8 witness: the Put of a "new session" request failed after the Get and the
\* Update had succeeded, for a phone number given as "WhatsApp:+12", and 12-v1
\* was returned.
C8_Witness ==
    \E p \in Procs :
        /\ SmsDone(p)
        /\ inv[p].failed
        /\ inv[p].ops = <<"get", "update", "error">>
        /\ SaysNewSession(inv[p].messageText)
        /\ Len(inv[p].phoneNumber) = 12
        /\ inv[p].returned = <<"1", "2", "-", "v", "1">>

\* the phone number argument is absent, empty or whitespace only
BlankPhone(phoneNumber) ==
    \/ phoneNumber = Absent
    \/ \A i \in 1..Len(phoneNumber) : phoneNumber[i] \in {" ", "\t", "\n", "\r"}

\* C9 as stated: session resolution never throws. On every channel and for
\* every input, a resolution ends with a non-empty string and raises no error.
C9_NeverThrows ==
    \A p \in Procs :
        inv[p].pc = "done" => ( ~inv[p].thrown /\ inv[p].returned # <<>> )

\* C9 amended: getOrCreateEmailSession never raises an error, whatever the
\* subject and sender (empty subject and absent sender included), and
\* getOrCreateSmsWhatsAppSession raises one exactly when the phone number is
\* absent, empty or whitespace only; every resolution that does not raise
\* ends with a non-empty string, persisted or fallback.
C9_ThrowsOnlyOnMissingPhone ==
    \A p \in Procs :
        inv[p].pc = "done" =>
            /\ inv[p].thrown <=> ( inv[p].fn = "sms" /\ BlankPhone(inv[p].phoneNumber) )
            /\ ~inv[p].thrown => inv[p].returned # <<>>
            /\ inv[p].thrown => inv[p].returned = <<>>

\* C9 witness: an email with an empty subject and no sender was resolved
\* without a store failure, and the id -v1 was returned.
C9_Witness ==
    \E p \in Procs :
        /\ inv[p].pc = "done"
        /\ inv[p].fn = "email"
        /\ inv[p].identifier.subject = <<>>
        /\ inv[p].identifier.senderEmail = Absent
        /\ ~inv[p].failed
        /\ ~inv[p].thrown
        /\ inv[p].returned = <<"-", "v", "1">>

\* C10: invalid input is a hard error. A call of getOrCreateSmsWhatsAppSession
\* with an absent, empty or whitespace-only phone number raises an error
\* instead of returning an id, before any store operation is issued, and
\* leaves the table unchanged.
C10_InvalidPhoneThrows ==
    /\ [](\A p \in Procs :
            ( SmsDone(p) /\ BlankPhone(inv[p].phoneNumber) )
            => /\ inv[p].thrown
               /\ inv[p].ops = <<>>
               /\ inv[p].returned = <<>>)
    /\ [][ \A p \in Procs :
             ( /\ inv[p].pc = "idle"
               /\ inv'[p].pc # "idle"
               /\ inv'[p].fn = "sms"
               /\ BlankPhone(inv'[p].phoneNumber) )
             => /\ inv'[p].pc = "done"
                /\ inv'[p].thrown
                /\ table' = table
                /\ issued' = issued
         ]_vars

\* C10 witness: a whitespace-only phone number was refused while the table
\* held a session record.
C10_Witness ==
    \E p \in Procs :
        /\ SmsDone(p)
        /\ inv[p].phoneNumber = <<" ">>
        /\ inv[p].thrown
        /\ inv[p].ops = <<>>
        /\ \E it \in table : "lastActivity" \in DOMAIN it

\* C11 as stated: nothing is persisted on store failure. Whenever a resolution
\* ends in the fallback path, the record stored under its session key is
\* identical to the record stored there when the resolution started.
C11_NothingPersistedOnFailure ==
    \A p \in Procs :
        ( inv[p].pc = "done" /\ inv[p].failed )
        => Stored(inv[p].sessionKey) = inv[p].before

\* a character of the query API's session id grammar [0-9a-zA-Z._:-]
SessionIdChar(c) ==
    \/ \E i \in 1..26 : LowerChars[i] = c \/ UpperChars[i] = c
    \/ \E i \in 1..10 : DigitChars[i] = c
    \/ c \in {".", "_", ":", "-"}

\* C12 as stated: grammar compliance. Every sessionId a resolution returns,
\* persisted or fallback, for any phone number, sender and subject, is
\* non-empty and consists only of characters in [0-9a-zA-Z._:-].
C12_GrammarCompliance ==
    \A p \in Procs :
        ( inv[p].pc = "done" /\ ~inv[p].thrown )
        => /\ inv[p].returned # <<>>
           /\ \A i \in 1..Len(inv[p].returned) : SessionIdChar(inv[p].returned[i])

\* a resolution of getOrCreateEmailSession that has ended
EmailDone(p) == inv[p].pc = "done" /\ inv[p].fn = "email"

\* a subject with letter case, surrounding whitespace and runs of internal
\* whitespace put aside
SubjectCore(s) == toLowerCase(ReplaceSpaceRuns(trim(s), <<" ">>))

\* t is s with one reply/forward marker (re:, fwd:, fw:) put in front
AddsMarker(s, t) ==
    \E m \in { <<"r", "e", ":">>, <<"f", "w", "d", ":">>, <<"f", "w", ":">> },
       gap \in { <<>>, <<" ">> } :
        SubjectCore(t) = m \o gap \o SubjectCore(s)

\* s and t differ only by a leading marker, letter case or whitespace
SubjectVariant(s, t) ==
    \/ SubjectCore(s) = SubjectCore(t)
    \/ AddsMarker(s, t)
    \/ AddsMarker(t, s)

\* C13 as stated: email continuation by equality. After an email with subject
\* S from sender A has created a session, a later email from A whose subject
\* differs from S only by a leading re:/fwd:/fw: marker, letter case or
\* whitespace resolves to the same session key and returns the same sessionId.
C13_ContinuationByEquality ==
    \A p \in Procs :
        EmailDone(p) =>
            \A it \in table :
                ( /\ "subject" \in DOMAIN it
                  /\ it.senderEmail = OrEmpty(inv[p].identifier.senderEmail)
                  /\ SubjectVariant(it.subject, OrEmpty(inv[p].identifier.subject)) )
                => /\ it.threadKey = inv[p].sessionKey
                   /\ inv[p].returned = it.sessionId

\* C14 as stated: email sender separation. Two emails with the same
\* normalized subject sent by two senders whose addresses differ after
\* lowercasing resolve to different sessionIds: the id a resolution returns is
\* not the id of a session stored for another sender and that subject.
C14_SenderSeparation ==
    \A p \in Procs :
        EmailDone(p) =>
            \A it \in table :
                ( /\ "subject" \in DOMAIN it
                  /\ NormalizeSubject(it.subject) =
                         NormalizeSubject(OrEmpty(inv[p].identifier.subject))
                  /\ toLowerCase(it.senderEmail) #
                         toLowerCase(OrEmpty(inv[p].identifier.senderEmail)) )
                => inv[p].returned # it.sessionId

\* the email of resolution p has the normalized subject and sender of the
\* record that was stored under its key when it started
SamePairAsBefore(p) ==
    /\ inv[p].before # NoItem
    /\ NormalizeSubject(OrEmpty(inv[p].identifier.subject)) =
           NormalizeSubject(inv[p].before.subject)
    /\ toLowerCase(OrEmpty(inv[p].identifier.senderEmail)) =
           toLowerCase(inv[p].before.senderEmail)

\* C15 as stated: email sessions never expire by time. For any elapsed time
\* between two emails with the same normalized (subject, sender), more than
\* SESSION_GAP_MAIL included, the resolution returns the same sessionId and
\* does not change sessionVersion.
C15_AsStated ==
    \A p \in Procs :
        ( EmailDone(p) /\ SamePairAsBefore(p) )
        => /\ inv[p].returned = inv[p].before.sessionId
           /\ Stored(inv[p].sessionKey).sessionVersion = inv[p].before.sessionVersion

\* C15 amended: no expiry by time when the store works. For any elapsed time
\* between two emails with the same normalized (subject, sender), the
\* resolution whose Get and Update succeed returns the stored sessionId and
\* changes lastActivity only; when a store operation fails the stored record
\* is left as it was and the fallback id of version 1 is returned, whatever
\* the elapsed time.
C15_NoTimeExpiry ==
    \A p \in Procs :
        ( EmailDone(p) /\ SamePairAsBefore(p) )
        => IF inv[p].failed
           THEN /\ Stored(inv[p].sessionKey) = inv[p].before
                /\ inv[p].returned = EmailFallbackSessionId(inv[p].identifier)
           ELSE /\ inv[p].ops = <<"get", "update">>
                /\ inv[p].returned = inv[p].before.sessionId
                /\ Stored(inv[p].sessionKey) =
                       [inv[p].before EXCEPT !.lastActivity = inv[p].now]

\* C15 witness: an email arrived more than SESSION_GAP_MAIL after the last
\* activity of the session of its subject and sender, and continued it.
C15_Witness ==
    \E p \in Procs :
        /\ EmailDone(p)
        /\ SamePairAsBefore(p)
        /\ ~inv[p].failed
        /\ inv[p].now - inv[p].before.lastActivity > SESSION_GAP_MAIL
        /\ inv[p].returned = inv[p].before.sessionId
        /\ Stored(inv[p].sessionKey).sessionVersion = inv[p].before.sessionVersion

\* the subject "Invoice #42" and its reply "Re: Invoice #42"
InvoiceSubject == <<"I", "n", "v", "o", "i", "c", "e", " ", "#", "4", "2">>

InvoiceReplySubject == <<"R", "e", ":", " ">> \o InvoiceSubject

\* the From header "Jane Doe <jane@x.com>" and the address "jane@x.com"
JaneHeader ==
    <<"J", "a", "n", "e", " ", "D", "o", "e", " ", "<">>
        \o <<"j", "a", "n", "e", "@", "x", ".", "c", "o", "m">> \o <<">">>

JaneAddress == <<"j", "a", "n", "e", "@", "x", ".", "c", "o", "m">>

\* the session key "email-subject:invoice-42|from:jane@x.com"
InvoiceKey ==
    <<"e", "m", "a", "i", "l", "-", "s", "u", "b", "j", "e", "c", "t", ":">>
        \o <<"i", "n", "v", "o", "i", "c", "e", "-", "4", "2">>
        \o <<"|", "f", "r", "o", "m", ":">> \o JaneAddress

\* C16 as stated: the email key scenario. An email from Jane Doe <jane@x.com>
\* with subject "Invoice #42" is resolved under the session key
\* email-subject:invoice-42|from:jane@x.com, and the reply "Re: Invoice #42"
\* from jane@x.com is resolved under that same key and returns the sessionId
\* of the record stored there.
C16_InvoiceScenario ==
    \A p \in Procs :
        /\ ( /\ EmailDone(p)
             /\ inv[p].identifier.subject = InvoiceSubject
             /\ inv[p].identifier.senderEmail = JaneHeader )
           => inv[p].sessionKey = InvoiceKey
        /\ ( /\ EmailDone(p)
             /\ inv[p].identifier.subject = InvoiceReplySubject
             /\ inv[p].identifier.senderEmail = JaneAddress )
           => /\ inv[p].sessionKey = InvoiceKey
              /\ \A it \in table :
                    ( /\ "subject" \in DOMAIN it
                      /\ it.subject = InvoiceSubject
                      /\ it.senderEmail = JaneHeader )
                    => inv[p].returned = it.sessionId

\* the digits of the number all of PhoneRenderings render
RenderedNumber == <<"1", "2", "3", "4", "5", "6", "7", "8", "9", "0", "0">>

C18_PhoneNormalizationIdempotent ==
    \A p \in Procs :
        ( inv[p].pc # "idle" /\ inv[p].fn = "sms" )
        => normalizePhoneNumber(normalizePhoneNumber(inv[p].phoneNumber)) =
               normalizePhoneNumber(inv[p].phoneNumber)

\* C19 as stated: subject normalization is idempotent. For every subject x an
\* email is resolved with, the normalization used for the session key (trim,
\* strip a leading re:/fwd:/fw: marker, collapse whitespace, lowercase)
\* applied twice gives what it gives applied once, so that stacked markers
\* map to the key of the bare subject.
C19_SubjectNormalizationIdempotent ==
    \A p \in Procs :
        ( inv[p].pc # "idle" /\ inv[p].fn = "email" )
        => NormalizeSubject(NormalizeSubject(OrEmpty(inv[p].identifier.subject))) =
               NormalizeSubject(OrEmpty(inv[p].identifier.subject))

\* a call of a time-windowed generator that has returned
WindowDone(p) == inv[p].pc = "done" /\ inv[p].fn \in {"generateSms", "generateWhatsApp"}

\* the identifier a generator call is for: the WaId when one is given, else
\* the phone number
WindowIdentifier(p) ==
    IF inv[p].waId # Absent THEN inv[p].waId ELSE inv[p].phoneNumber

\* the decimal digits a returned id ends with, after its last hyphen
RECURSIVE AfterLastHyphen(_)
AfterLastHyphen(id) ==
    IF \E i \in 1..Len(id) : id[i] = "-"
    THEN AfterLastHyphen(SubSeq(id, (CHOOSE i \in 1..Len(id) : id[i] = "-") + 1, Len(id)))
    ELSE id

SameWindowIdentifier(p, q) ==
    /\ WindowDone(p) /\ WindowDone(q)
    /\ inv[q].fn = inv[p].fn
    /\ WindowIdentifier(q) = WindowIdentifier(p)

\* time between the two calls
Apart(p, q) ==
    IF inv[p].now >= inv[q].now THEN inv[p].now - inv[q].now
    ELSE inv[q].now - inv[p].now

BothStartedNewSession(p, q) ==
    /\ p # q
    /\ SmsDone(p) /\ SmsDone(q)
    /\ inv[p].sessionKey = inv[q].sessionKey
    /\ ReadWellFormed(p)
    /\ inv[q].item = inv[p].item
    /\ ~inv[p].failed /\ ~inv[q].failed
    /\ inv[p].ops[Len(inv[p].ops)] = "put"
    /\ inv[q].ops[Len(inv[q].ops)] = "put"

\* C22: resolution is not atomic across invocations. When two invocations for
\* the same session key interleave, both can read the same prior record
\* before either writes; each then decides on its own, and when both decide to
\* start a new session both return the id of version read + 1, one Put
\* overwrites the other, and the table holds one record of that version: one
\* version bump is lost.
C22_LostVersionBump ==
    \A p \in Procs, q \in Procs :
        BothStartedNewSession(p, q) =>
            /\ inv[p].returned = inv[q].returned
            /\ inv[p].returned =
                   ExpectedSmsRecord(p, inv[p].item.sessionVersion + 1).sessionId
            /\ Stored(inv[p].sessionKey).sessionVersion = inv[p].item.sessionVersion + 1
            /\ Stored(inv[p].sessionKey) \in
                   { ExpectedSmsRecord(p, inv[p].item.sessionVersion + 1),
                     ExpectedSmsRecord(q, inv[p].item.sessionVersion + 1) }
            /\ Cardinality({it \in table : KeyOf(it) = inv[p].sessionKey}) = 1

\* C22 witness: two resolutions that arrived at different times both read the
\* active record of version 1, both put version 2, and the record the table
\* holds is the one of the resolution that read the clock first, put last.
C22_Witness ==
    \E p \in Procs, q \in Procs :
        /\ BothStartedNewSession(p, q)
        /\ inv[p].item.sessionVersion = 1
        /\ inv[p].now < inv[q].now
        /\ inv[p].returned = inv[q].returned
        /\ Stored(inv[p].sessionKey).sessionVersion = 2
        /\ Stored(inv[p].sessionKey).createdAt = inv[p].now

(************************ C23: relaying despite store failures ************************)
\* a handler invocation that has answered after resolving a session
Relayed(p) ==
    /\ inv[p].pc = "responded"
    /\ "handler" \in DOMAIN inv[p]
    /\ inv[p].statusCode = 200

\* every store operation of the resolution failed: the first one threw
EveryStoreOperationFailed(p) ==
    inv[p].failed /\ inv[p].ops = <<"error">>

\* C23: in the WhatsApp webhook and in the Gmail poller, a message whose sender
\* identifier and text are not blank (the handlers test x && x.trim()) is
\* resolved and relayed: the query API is called, with the id the resolution
\* returned, which is never empty, also when every store operation failed; and
\* whether the query API is called and whether the reply is sent depends on
\* the message alone, never on the outcome of the store operations.
C23_RelayDespiteStoreFailure ==
    \A p \in Procs :
        /\ (inv[p].pc = "responded" /\ "handler" \in DOMAIN inv[p]
              /\ inv[p].handler = "whatsappWebhook")
              => (inv[p].statusCode = 200 <=> ~PhoneNumberMissing(inv[p].phoneNumber))
        /\ Relayed(p) =>
              /\ ~inv[p].thrown
              /\ inv[p].queried <=> HasText(inv[p].text)
              /\ inv[p].queried =>
                    /\ inv[p].querySessionId = inv[p].returned
                    /\ inv[p].querySessionId # <<>>
                    /\ trim(inv[p].querySessionId) # <<>>
              /\ inv[p].replied <=> ReplySent(inv[p])

\* the poller relays an email although the Get of the resolution failed
C23_Witness ==
    /\ Relayed(1)
    /\ EveryStoreOperationFailed(1)
    /\ inv[1].handler = "poller"
    /\ inv[1].queried
    /\ inv[1].replied
    /\ inv[1].querySessionId = EmailFallbackSessionId(inv[1].identifier)

(******************** C24: malformed or inactive record ********************)
\* the record read lacks sessionVersion or lastActivity, or is inactive
ReadMalformedOrInactive(p) ==
    /\ inv[p].item # NoItem
    /\ ~ReadWellFormed(p) \/ ~ReadActive(p)

\* C24: a resolution that reads a record lacking sessionVersion or
\* lastActivity, or an inactive record, does not throw and, its store
\* operations succeeding, does not continue the old session: it persists a new
\* version with isActive = true, whose sessionId is not the one of the record
\* it replaces, and returns the sessionId of the persisted record.
C24_FreshVersion ==
    \A p \in Procs :
        ( /\ SmsDone(p)
          /\ ReadMalformedOrInactive(p)
          /\ ~inv[p].failed )
        => /\ ~inv[p].thrown
           /\ Stored(inv[p].sessionKey).isActive = TRUE
           /\ Stored(inv[p].sessionKey).sessionId = inv[p].returned
           /\ Stored(inv[p].sessionKey).createdAt = inv[p].now
           /\ inv[p].returned # inv[p].item.sessionId
           /\ "sessionVersion" \in DOMAIN inv[p].item
                 => Stored(inv[p].sessionKey).sessionVersion > inv[p].item.sessionVersion

(************************ C25: what a touch changes ************************)
\* the step in which the resolution of p continues the session it read: the
\* Update of lastActivity answers
Touches(p) ==
    /\ inv[p].pc = "touch"
    /\ inv'[p].pc = "done"
    /\ ~inv'[p].failed

\* C25: when a resolution continues an existing session (SMS/WhatsApp within
\* the gap, email with equal subject and sender), the record under its key
\* keeps its fields and their values except lastActivity, which becomes the
\* resolution's current time; the records of the other keys stay as they are,
\* and the id returned is the one of that record.
C25_TouchFrame ==
    [][ \A p \in Procs :
          Touches(p) =>
              LET key == inv[p].sessionKey
                  old == GetItem(table, key)
                  new == GetItem(table', key)
              IN  /\ old # NoItem
                  /\ new # NoItem
                  /\ DOMAIN new = DOMAIN old
                  /\ \A f \in DOMAIN old \ {"lastActivity"} : new[f] = old[f]
                  /\ new.lastActivity = inv[p].now
                  /\ {it \in table' : it.threadKey # key}
                        = {it \in table : it.threadKey # key}
                  /\ inv'[p].returned = old.sessionId ]_vars

\* an email of the same subject and sender arrived later and continued the
\* session: the stored record is the one read, with the later lastActivity
C25_Witness ==
    \E p \in Procs :
        /\ EmailDone(p)
        /\ inv[p].ops = <<"get", "update">>
        /\ inv[p].before.lastActivity < inv[p].now
        /\ inv[p].before.createdAt < inv[p].now
        /\ Stored(inv[p].sessionKey) = [inv[p].before EXCEPT !.lastActivity = inv[p].now]
        /\ inv[p].returned = inv[p].before.sessionId

(******************* C26: the email version bump *******************)
\* the normalized (subject, sender) pair the key is derived from
NormalizedPair(subject, sender) ==
    <<NormalizeSubject(OrEmpty(subject)), toLowerCase(OrEmpty(sender))>>

\* the email of resolution p and the record stored under its key have
\* different normalized pairs, which generateEmailSessionKey maps to one key
KeyCollision(p) ==
    /\ inv[p].before # NoItem
    /\ NormalizedPair(inv[p].identifier.subject, inv[p].identifier.senderEmail)
          # NormalizedPair(inv[p].before.subject, inv[p].before.senderEmail)
    /\ generateEmailSessionKey(inv[p].identifier, Uuid(0))
          = generateEmailSessionKey([ subject     |-> inv[p].before.subject,
                                      senderEmail |-> inv[p].before.senderEmail ],
                                    Uuid(1))

\* C26: getOrCreateEmailSession puts a new version over an existing record
\* only when the inbound normalized (subject, sender) pair differs from the
\* stored one although both map to the same key; without such a collision
\* the existing record is continued and a key's sessionVersion stays 1.
C26_BumpNeedsCollision ==
    \A p \in Procs :
        /\ (inv[p].pc = "putChanged" /\ inv[p].fn = "email") => KeyCollision(p)
        /\ (EmailDone(p) /\ ~inv[p].failed) =>
              /\ inv[p].before = NoItem =>
                    /\ inv[p].ops = <<"get", "put">>
                    /\ Stored(inv[p].sessionKey).sessionVersion = 1
              /\ (inv[p].before # NoItem /\ ~KeyCollision(p)) =>
                    /\ inv[p].ops = <<"get", "update">>
                    /\ Stored(inv[p].sessionKey).sessionVersion
                          = inv[p].before.sessionVersion
              /\ KeyCollision(p) =>
                    /\ inv[p].ops = <<"get", "put">>
                    /\ Stored(inv[p].sessionKey).sessionVersion
                          = inv[p].before.sessionVersion + 1
        /\ \A it \in table :
              ("sessionVersion" \in DOMAIN it /\ it.sessionVersion > 1
                  /\ "subject" \in DOMAIN it)
              => \E i, j \in 1..Len(issued) :
                    /\ i < j
                    /\ issued[i][1] = it.threadKey
                    /\ issued[j][1] = it.threadKey

\* the subject "ab|from:c@d.e" without a sender and the subject "Ab" from
\* "c@D.e" share a key: the second of them got version 2
C26_Witness ==
    \E p \in Procs :
        /\ EmailDone(p)
        /\ KeyCollision(p)
        /\ inv[p].ops = <<"get", "put">>
        /\ Stored(inv[p].sessionKey).sessionVersion = 2
        /\ Stored(inv[p].sessionKey).subject = inv[p].identifier.subject

(************** C27: thread id and reply headers play no part **************)
\* p and q resolve emails of the same subject and sender, started when the
\* same record, or none, was stored under their key
SameEmailSameStart(p, q) ==
    /\ inv[p].pc # "idle" /\ inv[p].fn = "email"
    /\ inv[q].pc # "idle" /\ inv[q].fn = "email"
    /\ inv[p].identifier.subject = inv[q].identifier.subject
    /\ inv[p].identifier.senderEmail = inv[q].identifier.senderEmail
    /\ inv[p].before = inv[q].before

\* ... and they differ in threadId, inReplyTo or references
DifferentThreadFields(p, q) ==
    \/ inv[p].identifier.threadId # inv[q].identifier.threadId
    \/ inv[p].identifier.inReplyTo # inv[q].identifier.inReplyTo
    \/ inv[p].identifier.references # inv[q].identifier.references

\* the sessionVersion a resolution that ended without a store failure arrived
\* at: 1 for a first session, the version read when it continued, else one more
ResultingVersion(p) ==
    IF inv[p].item = NoItem THEN 1
    ELSE IF inv[p].ops = <<"get", "update">> THEN inv[p].item.sessionVersion
    ELSE inv[p].item.sessionVersion + 1

\* C27 as stated: two resolutions of the same subject and sender, started from
\* the same store state with different thread fields, have the same session
\* key, return the same sessionId and arrive at the same sessionVersion.
C27_AsStated ==
    \A p, q \in Procs :
        (SameEmailSameStart(p, q) /\ DifferentThreadFields(p, q)) =>
            /\ inv[p].sessionKey = inv[q].sessionKey
            /\ (EmailDone(p) /\ EmailDone(q)) => inv[p].returned = inv[q].returned

\* C27 amended: with a normalized subject or a sender to build the key from,
\* the two resolutions have the same session key whatever their thread fields
\* are, and when the store operations of both succeed, or those of both fail,
\* they return the same sessionId and arrive at the same sessionVersion. With
\* neither subject nor sender each resolution draws a key of its own, finds no
\* record, and returns the id of version 1. A resolution whose store operation
\* fails returns the fallback id, which is built from subject and sender too.
C27_ThreadFieldsIgnored ==
    \A p, q \in Procs :
        (SameEmailSameStart(p, q) /\ p # q) =>
            /\ IF EmailKeyDrawsUuid(inv[p].identifier)
               THEN /\ inv[p].sessionKey # inv[q].sessionKey
                    /\ inv[p].before = NoItem
               ELSE inv[p].sessionKey = inv[q].sessionKey
            /\ (EmailDone(p) /\ EmailDone(q) /\ inv[p].failed = inv[q].failed) =>
                  /\ inv[p].returned = inv[q].returned
                  /\ ~inv[p].failed => ResultingVersion(p) = ResultingVersion(q)
            /\ (EmailDone(p) /\ inv[p].failed) =>
                  inv[p].returned = EmailFallbackSessionId(
                      [ subject     |-> inv[p].identifier.subject,
                        senderEmail |-> inv[p].identifier.senderEmail ])

\* two emails of one subject, one with a thread id and reply headers and one
\* without, arrived together: one key, one id, version 1 for both
C27_Witness ==
    \E p, q \in Procs :
        /\ SameEmailSameStart(p, q)
        /\ inv[p].identifier.threadId = Absent
        /\ inv[q].identifier.threadId # Absent
        /\ inv[q].identifier.inReplyTo # Absent
        /\ EmailDone(p) /\ ~inv[p].failed
        /\ EmailDone(q) /\ ~inv[q].failed
        /\ ~EmailKeyDrawsUuid(inv[p].identifier)
        /\ inv[p].sessionKey = inv[q].sessionKey
        /\ inv[p].returned = inv[q].returned
        /\ ResultingVersion(p) = ResultingVersion(q)
        /\ Stored(inv[p].sessionKey).sessionId = inv[p].returned

(******************* C28: store operations before the return *******************)
\* the store operations that write
IsWrite(op) == op \in {"update", "put"}

\* C28: a resolution asks for the record of its key first: no Update or Put
\* comes before the Get has answered, and after a store operation has failed
\* none follows. It returns the id of a record, rather than the fallback id of
\* the catch block, only when the Get and every write it sent have answered,
\* a write being the last of them; the id of a version it created is returned
\* when the Put of the record with that id has answered, so the record is
\* stored under the key by then.
C28_WriteBeforeReturn ==
    \A p \in Procs :
        (inv[p].pc # "idle" /\ ~inv[p].thrown) =>
            /\ \A i \in 1..Len(inv[p].ops) :
                  /\ i = 1 => inv[p].ops[i] \in {"get", "error"}
                  /\ i > 1 => IsWrite(inv[p].ops[i]) \/ inv[p].ops[i] = "error"
                  /\ inv[p].ops[i] = "error" => (i = Len(inv[p].ops) /\ inv[p].failed)
            /\ (inv[p].pc \notin {"get", "done", "responded"}) =>
                  /\ inv[p].ops # <<>>
                  /\ inv[p].returned = <<>>
            /\ (inv[p].pc = "done" /\ ~inv[p].failed) =>
                  /\ Len(inv[p].ops) >= 2
                  /\ inv[p].ops[1] = "get"
                  /\ IsWrite(inv[p].ops[Len(inv[p].ops)])
                  /\ Stored(inv[p].sessionKey).sessionId = inv[p].returned
                  /\ inv[p].ops[Len(inv[p].ops)] = "put" =>
                        /\ issued # <<>>
                        /\ issued[Len(issued)] = <<inv[p].sessionKey, inv[p].returned>>
                        /\ Stored(inv[p].sessionKey).createdAt = inv[p].now
            /\ (inv[p].pc = "done" /\ inv[p].failed) =>
                  inv[p].returned = IF inv[p].fn = "sms"
                                    THEN SmsFallbackSessionId(inv[p].phoneNumber)
                                    ELSE EmailFallbackSessionId(inv[p].identifier)

\* a "new session" message on an existing session: Get, Update and Put have
\* answered, and the id returned is the one of the record of version 2
C28_Witness ==
    \E p \in Procs :
        /\ SmsDone(p)
        /\ inv[p].ops = <<"get", "update", "put">>
        /\ ~inv[p].failed
        /\ Stored(inv[p].sessionKey).sessionVersion = 2
        /\ Stored(inv[p].sessionKey).sessionId = inv[p].returned
        /\ inv[p].returned # SmsFallbackSessionId(inv[p].phoneNumber)

(**************** C29: session ids across session keys ****************)
\* C29: the ids of the records put under two different session keys differ:
\* no sessionId returned for one key is returned for another.
C29_IdsDifferAcrossKeys ==
    \A i, j \in 1..Len(issued) :
        issued[i][1] # issued[j][1] => issued[i][2] # issued[j][2]

(******************* C30: the stored records are consistent *******************)
\* the fields of an SmsWhatsAppSessionRecord as it is put
SmsRecordFields ==
    { "threadKey", "sessionKey", "sessionId", "channel", "phoneNumber",
      "sessionVersion", "createdAt", "lastActivity", "isActive" }

\* C30: in every state of the table, under any interleaving of SMS/WhatsApp
\* resolutions, each record has all fields of the record type, its sessionId
\* is its normalized phone number, "-v" and its sessionVersion, its sessionKey
\* (and the table key) is its channel, "-" and its normalized phone number,
\* and its sessionVersion is 1 or more.
C30_StoredRecordConsistent ==
    \A it \in table :
        /\ DOMAIN it = SmsRecordFields
        /\ it.sessionVersion >= 1
        /\ it.sessionId = it.phoneNumber \o <<"-", "v">> \o NumberToString(it.sessionVersion)
        /\ it.sessionId = generateSmsWhatsAppSessionId(it.phoneNumber, it.sessionVersion)
        /\ it.sessionKey = ChannelString(it.channel) \o <<"-">> \o it.phoneNumber
        /\ it.threadKey = it.sessionKey
        /\ \A other \in table : other.threadKey = it.threadKey => other = it

\* two resolutions read the record of version 1 after the gap; one has put
\* version 2 when the other's Update of isActive arrives: the record of
\* version 2 is marked inactive, its id is still the one of version 2
C30_Witness ==
    \E it \in table, p \in Procs :
        /\ it.sessionVersion = 2
        /\ it.isActive = FALSE
        /\ it.sessionId = generateSmsWhatsAppSessionId(it.phoneNumber, 2)
        /\ inv[p].pc = "putGap"
        /\ inv[p].item.sessionVersion = 1
        /\ inv[p].sessionKey = it.threadKey

====
